---- MODULE Spec2Model ----
(***************************************************************************)
(* libssg: the build state of a static site generator (src/src/lib.rs),    *)
(* its staleness check, the registration of pages and copies, the rules    *)
(* run through State::then and the commit phase State::finish.             *)
(*                                                                         *)
(* Paths are sequences of components; a component is a sequence holding    *)
(* the file stem and, when there is one, the extension.  The root          *)
(* directory is the component <<"/">>, as in Path::components().           *)
(* A string (file contents, a metadata value) is a sequence of tokens.     *)
(***************************************************************************)
EXTENDS Integers, Sequences, FiniteSets, TLC

VARIABLES
    snapshots,      \* State.snapshots: IndexMap<String, Vec<Uuid>>
    artifacts,      \* State.artifacts: IndexMap<Uuid, BuildArtifact>
    build_actions,  \* State.build_actions: IndexMap<PathBuf, BuildAction>
    output_dir,     \* State.output_dir: PathBuf
    err,            \* State.err: Option<Error>
    force_generate, \* State.force_generate: bool
    fs,             \* the file system: existing files and their mtimes
    now,            \* the file system clock
    panicked,       \* the process has aborted (unwrap, assert!, index)
    calls,          \* compilers and renderers invoked by the last operation
    log,            \* actions the last finish resolved a file for, in order
    order,          \* destinations in the order of their first insertion in the queue
    last,           \* the last operation: its name, inputs and result
    ops,            \* the number of operations so far
    failed          \* history of the error latch

vars == <<snapshots, artifacts, build_actions, output_dir, err, force_generate,
          fs, now, panicked, calls, log, order, last, ops, failed>>

-----------------------------------------------------------------------------
(* Bounds of the model *)

MaxTime == 2
MaxOps == 3
MaxSnapshot == 2
MaxStages == 3

-----------------------------------------------------------------------------
(* Paths: std::path::PathBuf *)

Root == <<"/">>

is_absolute(p) == Len(p) > 0 /\ p[1] = Root

\* PathBuf::push: an absolute argument replaces the buffer.
push(buf, p) == IF is_absolute(p) THEN p ELSE buf \o p

\* Path::join
join(base, p) == push(base, p)

\* PathBuf::pop: drops the last component; the root and the empty path stay.
pop(buf) ==
    IF Len(buf) = 0 \/ buf = <<Root>> THEN buf ELSE SubSeq(buf, 1, Len(buf) - 1)

RECURSIVE pop_n(_, _)
pop_n(buf, n) == IF n <= 0 THEN buf ELSE pop_n(pop(buf), n - 1)

\* Path::parent
parent(p) == pop(p)

\* Path::starts_with
starts_with(p, base) == Len(base) <= Len(p) /\ SubSeq(p, 1, Len(base)) = base

\* Path::strip_prefix: the rest of p after base; defined when p starts with base.
strip_prefix(p, base) == SubSeq(p, Len(base) + 1, Len(p))

\* Path::extension of the last component, <<>> when there is none
extension(p) ==
    IF Len(p) > 0 /\ Len(p[Len(p)]) = 2 THEN <<p[Len(p)][2]>> ELSE <<>>

\* PathBuf::set_extension
set_extension(p, ext) ==
    IF Len(p) = 0 \/ p[Len(p)] = Root THEN p
    ELSE [p EXCEPT ![Len(p)] = <<p[Len(p)][1], ext>>]

\* The working directory, the output directory as State::new canonicalizes it,
\* and the templates directory.
current_dir == <<Root, <<"w">>>>
OutputDir0 == <<Root, <<"w">>, <<"_site">>>>
templates_dir == <<Root, <<"w">>, <<"templates">>>>
url_root == <<>>

-----------------------------------------------------------------------------
(* indexmap::IndexMap as a sequence of [key, val] entries in insertion order *)

index_of(m, k) ==
    IF \E i \in 1..Len(m) : m[i].key = k
    THEN CHOOSE i \in 1..Len(m) : m[i].key = k
    ELSE 0

contains_key(m, k) == index_of(m, k) # 0

get(m, k) == m[index_of(m, k)].val

\* A mutant of IndexMap::insert: a multimap.
insert_dup(m, k, v) == Append(m, [key |-> k, val |-> v])

\* IndexMap::insert: a new key goes last, an existing key keeps its place.
insert(m, k, v) ==
    LET i == index_of(m, k) IN
    IF i = 0 THEN Append(m, [key |-> k, val |-> v])
    ELSE [m EXCEPT ![i] = [key |-> k, val |-> v]]

\* The stable ascending order of the indices of ks (slice::sort_by is stable).
RECURSIVE sorted_indices(_, _)
sorted_indices(ks, n) ==
    IF n = 0 THEN <<>>
    ELSE LET prev == sorted_indices(ks, n - 1)
             \* n goes after every earlier index whose key is not greater
             pos == IF \E j \in 1..Len(prev) : ks[prev[j]] > ks[n]
                    THEN (CHOOSE j \in 1..Len(prev) :
                            /\ ks[prev[j]] > ks[n]
                            /\ \A l \in 1..(j - 1) : ks[prev[l]] <= ks[n]) - 1
                    ELSE Len(prev)
         IN SubSeq(prev, 1, pos) \o <<n>> \o SubSeq(prev, pos + 1, Len(prev))

\* IndexMap::sort_by on the keys ks[i] of the entries m[i]
sort_by(m, ks) ==
    LET ix == sorted_indices(ks, Len(m)) IN [i \in 1..Len(m) |-> m[ix[i]]]

\* serde_json::Map::insert
map_insert(m, k, v) ==
    [x \in (DOMAIN m) \cup {k} |-> IF x = k THEN v ELSE m[x]]

\* A mutant of Map::extend: the entries of a are kept.
map_extend_kept(a, b) ==
    [x \in (DOMAIN a) \cup (DOMAIN b) |-> IF x \in DOMAIN a THEN a[x] ELSE b[x]]

\* Map::extend: the entries of b replace those of a
map_extend(a, b) ==
    [x \in (DOMAIN a) \cup (DOMAIN b) |-> IF x \in DOMAIN b THEN b[x] ELSE a[x]]

EmptyMap == <<>>

-----------------------------------------------------------------------------
(* The State as a record, for the operators that thread it *)

NoErr == "none"

St == [snapshots |-> snapshots, artifacts |-> artifacts,
       build_actions |-> build_actions, output_dir |-> output_dir,
       err |-> err, force_generate |-> force_generate,
       fs |-> fs, now |-> now, panicked |-> panicked,
       calls |-> <<>>, log |-> <<>>, order |-> order]

Set(s) ==
    /\ snapshots' = s.snapshots
    /\ artifacts' = s.artifacts
    /\ build_actions' = s.build_actions
    /\ output_dir' = s.output_dir
    /\ err' = s.err
    /\ force_generate' = s.force_generate
    /\ fs' = s.fs
    /\ now' = s.now
    /\ panicked' = s.panicked
    /\ calls' = s.calls
    /\ log' = s.log
    /\ order' = s.order
    /\ ops < MaxOps
    /\ ops' = ops + 1

\* Uuid::new_v3(NAMESPACE_OID, bytes of the path): a function of the path alone
uuid_from_path(path) == [ns |-> "OID", name |-> path]

\* State::add_snapshot
add_snapshot(s, key) ==
    IF contains_key(s.snapshots, key) THEN s
    ELSE [s EXCEPT !.snapshots = Append(@, [key |-> key, val |-> <<>>])]

\* A mutant of State::add_to_snapshot: an identifier is kept once.
add_to_snapshot_once(s, key, artifact) ==
    LET i == index_of(s.snapshots, key) IN
    IF i = 0
    THEN [s EXCEPT !.snapshots = Append(@, [key |-> key, val |-> <<artifact>>])]
    ELSE IF \E j \in 1..Len(s.snapshots[i].val) : s.snapshots[i].val[j] = artifact
    THEN s
    ELSE [s EXCEPT !.snapshots[i].val = Append(@, artifact)]

\* State::add_to_snapshot
add_to_snapshot(s, key, artifact) ==
    LET i == index_of(s.snapshots, key) IN
    IF i = 0
    THEN [s EXCEPT !.snapshots = Append(@, [key |-> key, val |-> <<artifact>>])]
    ELSE [s EXCEPT !.snapshots[i].val = Append(@, artifact)]

-----------------------------------------------------------------------------
(* The file system *)

\* An entry of the file system is a regular file or a directory.
\* Path::exists
exists(f, p) == p \in DOMAIN f

is_dir(f, p) == p \in DOMAIN f /\ f[p].dir
is_file(f, p) == p \in DOMAIN f /\ ~f[p].dir

\* fs::metadata(p).and_then(|m| m.modified()) succeeds
mtime_ok(f, p) == p \in DOMAIN f /\ f[p].readable

Dir(t) == [dir |-> TRUE, readable |-> TRUE, mtime |-> t, data |-> <<>>]
File(t, data) == [dir |-> FALSE, readable |-> TRUE, mtime |-> t, data |-> data]

\* some proper prefix of p is a regular file: nothing can be created at p
under_a_file(f, p) == \E n \in 1..(Len(p) - 1) : is_file(f, SubSeq(p, 1, n))

\* fs::create_dir_all(p) at time t: the missing directories down to p
create_dir_all(f, p, t) ==
    LET missing == {SubSeq(p, 1, n) : n \in 1..Len(p)} \ DOMAIN f IN
    [x \in (DOMAIN f) \cup missing |-> IF x \in missing THEN Dir(t) ELSE f[x]]

\* a file is created or truncated at p and data written to it at time t; the
\* directory of a new file is modified too
write_file(f, p, t, data) ==
    [x \in (DOMAIN f) \cup {p} |->
        IF x = p THEN File(t, data)
        ELSE IF x = parent(p) /\ p \notin DOMAIN f THEN [f[x] EXCEPT !.mtime = t]
        ELSE f[x]]

\* A mutant of fs::copy: the destination is created and nothing is copied.
copy_file_created(f, from, to, t) == write_file(f, to, t, <<>>)

\* fs::copy(from, to) at time t: to is opened with truncation before from is
\* read, so that a file copied onto itself is left empty
copy_file(f, from, to, t) ==
    write_file(f, to, t, IF from = to THEN <<>> ELSE f[from].data)

-----------------------------------------------------------------------------
(* The environment of a run: version control and the document converter *)

\* The date `git log -1 --format=%ad -- resource` prints, parsed as RFC 3339;
\* ok is FALSE when the output is no date (a file without history).
git_log(resource) ==
    LET f == join(current_dir, resource) IN
    CASE f = current_dir \o <<<<"a", "md">>>> -> [ok |-> TRUE, date |-> 2]
      [] f = current_dir \o <<<<"b", "md">>>> -> [ok |-> TRUE, date |-> 1]
      [] f = current_dir \o <<<<"c", "css">>>> -> [ok |-> TRUE, date |-> 1]
      [] f = current_dir \o <<<<"_site">>, <<"old", "html">>>> -> [ok |-> TRUE, date |-> 1]
      [] OTHER -> [ok |-> FALSE, date |-> 0]

\* fs::metadata(resource).modified() as an Option
modified_date(s, resource) ==
    LET f == join(current_dir, resource) IN
    IF mtime_ok(s.fs, f) THEN <<s.fs[f].mtime>> ELSE <<>>

-----------------------------------------------------------------------------
(* State::check_mtime *)

\* A mutant: the force flag is not consulted.
check_mtime_unforced(s, dest, resource) ==
    LET res == join(current_dir, resource)
        fs_depth == Len(s.output_dir)
        pushed == push(s.output_dir, dest)
        ret == ~(/\ exists(s.fs, pushed)
                 /\ mtime_ok(s.fs, pushed)
                 /\ mtime_ok(s.fs, res)
                 /\ s.fs[res].mtime <= s.fs[pushed].mtime)
    IN [s |-> [s EXCEPT !.output_dir = pop_n(pushed, Len(pushed) - fs_depth)],
        ret |-> ret]

\* Whether dest's mtime is older than resource's.  The result and the State
\* after the call (the path buffer is pushed and popped).
check_mtime(s, dest, resource) ==
    LET res == join(current_dir, resource) IN
    IF s.force_generate THEN [s |-> s, ret |-> TRUE]
    ELSE
    LET fs_depth == Len(s.output_dir)
        pushed == push(s.output_dir, dest)
        ret == ~(/\ exists(s.fs, pushed)
                 /\ mtime_ok(s.fs, pushed)
                 /\ mtime_ok(s.fs, res)
                 /\ s.fs[res].mtime <= s.fs[pushed].mtime)
    IN \* cleanup: one pop per component above fs_depth
       [s |-> [s EXCEPT !.output_dir = pop_n(pushed, Len(pushed) - fs_depth)],
        ret |-> ret]

-----------------------------------------------------------------------------
(* State::copy_page *)

BuildArtifact(uuid, path, resource, metadata, mdate, udate) ==
    [uuid |-> uuid, path |-> path, resource |-> resource, metadata |-> metadata,
     modified_date |-> mdate, updated_date |-> udate]

BuildAction(src, to) == [src |-> src, to |-> to]

\* self.build_actions.insert(dest, action)
enqueue(s, dest, action) ==
    [s EXCEPT !.build_actions = insert(@, dest, action),
              !.order = IF \E i \in 1..Len(@) : @[i] = dest THEN @ ELSE Append(@, dest)]

RendererNone == [kind |-> "None"]

\* A mutant: a cached copy keeps the resource as its source.
copy_page_insert_resource(c, uuid, resource, dest, mdate, udate) ==
    [s |-> [(IF c.ret THEN enqueue(c.s, dest, BuildAction(uuid, RendererNone)) ELSE c.s)
                EXCEPT !.artifacts = insert(@, uuid,
                    BuildArtifact(uuid, dest, resource, EmptyMap, mdate, udate))],
     ok |-> TRUE, val |-> uuid, enq |-> c.ret]

\* The two branches of copy_page on the result c of check_mtime
copy_page_insert(c, uuid, resource, dest, mdate, udate) ==
    IF c.ret
    THEN [s |-> [enqueue(c.s, dest, BuildAction(uuid, RendererNone)) EXCEPT
                    !.artifacts = insert(@, uuid,
                        BuildArtifact(uuid, dest, resource, EmptyMap, mdate, udate))],
          ok |-> TRUE, val |-> uuid, enq |-> TRUE]
    ELSE [s |-> [c.s EXCEPT
                    !.artifacts = insert(@, uuid,
                        BuildArtifact(uuid, dest, dest, EmptyMap, mdate, udate))],
          ok |-> TRUE, val |-> uuid, enq |-> FALSE]

\* A mutant: the identifier is derived from the destination.
copy_page_by_dest(s, resource, dest) ==
    IF ~git_log(resource).ok
    THEN [s |-> [s EXCEPT !.panicked = TRUE], ok |-> FALSE,
          val |-> uuid_from_path(dest), enq |-> FALSE]
    ELSE copy_page_insert(check_mtime(s, dest, resource), uuid_from_path(dest),
                          resource, dest, modified_date(s, resource),
                          git_log(resource).date)

\* The result: the State after the call and, unless the call panicked, the uuid
\* and whether an action was enqueued.
copy_page(s, resource, dest) ==
    IF ~git_log(resource).ok
    THEN \* unwrap() of the parse error
         [s |-> [s EXCEPT !.panicked = TRUE], ok |-> FALSE,
          val |-> uuid_from_path(resource), enq |-> FALSE]
    ELSE copy_page_insert(check_mtime(s, dest, resource), uuid_from_path(resource),
                          resource, dest, modified_date(s, resource),
                          git_log(resource).date)

-----------------------------------------------------------------------------
(* Renderer (src/src/renderers.rs) *)

LoadAndApplyTemplate(path) == [kind |-> "LoadAndApplyTemplate", path |-> path]
Pipeline(list) == [kind |-> "Pipeline", list |-> list]
\* A Custom renderer holds a closure Fn(&mut State, &mut Map) -> Result<String>:
\*   "body"     returns the context's body, or an error when there is none
\*              (the closure of build_rss_feed);
\*   "register" calls state.copy_page(resource, dest), then returns the body.
CustomBody == [kind |-> "Custom", f |-> "body"]
CustomRegister(resource, dest) ==
    [kind |-> "Custom", f |-> "register", resource |-> resource, dest |-> dest]

template_file(path) == templates_dir \o <<path>>

RECURSIVE renderer_check_mtime(_, _, _)

\* A mutant: a renderer without templates is never stale.
renderer_check_mtime_templates(s, r, dest_path) ==
    CASE r.kind = "LoadAndApplyTemplate" ->
            check_mtime(s, dest_path, template_file(r.path))
      [] r.kind = "Pipeline" ->
            IF r.list = <<>> THEN [s |-> s, ret |-> FALSE]
            ELSE LET h == renderer_check_mtime(s, Head(r.list), dest_path) IN
                 IF h.ret THEN h
                 ELSE renderer_check_mtime(h.s, Pipeline(Tail(r.list)), dest_path)
      [] OTHER -> [s |-> s, ret |-> FALSE]

\* Renderer::check_mtime: whether dest_path is older than the renderer's templates.
renderer_check_mtime(s, r, dest_path) ==
    CASE r.kind = "LoadAndApplyTemplate" ->
            check_mtime(s, dest_path, template_file(r.path))
      [] r.kind = "Pipeline" ->
            \* list.iter().any(..): stops at the first stale stage
            IF r.list = <<>> THEN [s |-> s, ret |-> FALSE]
            ELSE LET h == renderer_check_mtime(s, Head(r.list), dest_path) IN
                 IF h.ret THEN h
                 ELSE renderer_check_mtime(h.s, Pipeline(Tail(r.list)), dest_path)
      [] OTHER -> \* None | Custom(_)
            [s |-> s, ret |-> TRUE]

\* State::templates_render: the template applied to the context, or an error
\* when the template cannot be loaded.
templates_render(s, template_path, context) ==
    IF ~exists(s.fs, template_file(template_path))
    THEN [ok |-> FALSE, out |-> <<>>, err |-> "template"]
    ELSE [ok |-> TRUE,
          out |-> <<template_path[1]>> \o
                  (IF "body" \in DOMAIN context THEN context["body"] ELSE <<>>),
          err |-> NoErr]

\* Renderer::render.  The result: the State and the context after the call,
\* whether it succeeded, and the rendered string.
RECURSIVE render(_, _, _), render_stages(_, _, _), render_stages_apart(_, _, _)
render(s, r, context) ==
    LET s1 == [s EXCEPT !.calls = Append(@, [fn |-> "render", r |-> r])] IN
    CASE r.kind = "LoadAndApplyTemplate" ->
            LET t == templates_render(s1, r.path, context) IN
            [s |-> s1, context |-> context, ok |-> t.ok, out |-> t.out, err |-> t.err]
      [] r.kind = "Pipeline" -> render_stages(s1, r.list, context)
      [] r.kind = "Custom" /\ r.f = "body" ->
            IF "body" \in DOMAIN context
            THEN [s |-> s1, context |-> context, ok |-> TRUE,
                  out |-> context["body"], err |-> NoErr]
            ELSE [s |-> s1, context |-> context, ok |-> FALSE,
                  out |-> <<>>, err |-> "nobody"]
      [] r.kind = "Custom" /\ r.f = "register" ->
            LET c == copy_page(s1, r.resource, r.dest) IN
            [s |-> c.s, context |-> context, ok |-> TRUE,
             out |-> IF "body" \in DOMAIN context THEN context["body"] ELSE <<>>,
             err |-> NoErr]
      [] OTHER -> \* None
            [s |-> s1, context |-> context, ok |-> TRUE, out |-> <<>>, err |-> NoErr]


\* A mutant: the output of a stage is not passed on to the next one.
render_stages_apart(s, list, context) ==
    IF list = <<>>
    THEN [s |-> s, context |-> context, ok |-> TRUE, out |-> <<>>, err |-> NoErr]
    ELSE LET new_body == render(s, Head(list), context) IN
         IF ~new_body.ok \/ new_body.s.panicked \/ Len(list) = 1
         THEN new_body
         ELSE render_stages(new_body.s, Tail(list), new_body.context)

\* The loop of Renderer::render over the stages of a Pipeline: the output of
\* every stage but the last becomes the body of the context.
render_stages(s, list, context) ==
    IF list = <<>>
    THEN [s |-> s, context |-> context, ok |-> TRUE, out |-> <<>>, err |-> NoErr]
    ELSE LET new_body == render(s, Head(list), context) IN
         IF ~new_body.ok \/ new_body.s.panicked \/ Len(list) = 1
         THEN new_body
         ELSE render_stages(new_body.s, Tail(list),
                            map_insert(new_body.context, "body", new_body.out))

-----------------------------------------------------------------------------
(* Compilers (src/src/compilers.rs): Fn(&mut State, &Path) -> Result<Map> *)

\* pandoc(): the metadata and the body of the converted file
Pandoc == [kind |-> "pandoc"]
\* a compiler that returns an error
Failing == [kind |-> "fail"]
\* the closure of the example binary: appends the resource's uuid to a snapshot
Snap(name) == [kind |-> "snap", name |-> name]
RssFeed(name) == [kind |-> "rss_feed", name |-> name]
CompilerSeq(a, b) == [kind |-> "compiler_seq", a |-> a, b |-> b]

\* what pandoc prints for a file
pandoc_out(path) ==
    [title |-> <<"title", path[Len(path)][1]>>, body |-> <<"html", path[Len(path)][1]>>]

\* the feed of the artifacts ids, in order
RECURSIVE rss_items(_, _)
rss_items(s, ids) ==
    IF ids = <<>> THEN <<>>
    ELSE LET a == get(s.artifacts, Head(ids))
             map == a.metadata
             description == IF "body" \in DOMAIN map THEN map["body"] ELSE <<>>
         IN <<"item", a.path[Len(a.path)][1]>> \o description \o rss_items(s, Tail(ids))

\* A mutant: a snapshot without identifiers counts as missing.
has_snapshot_items(s, snapshot_name) ==
    /\ contains_key(s.snapshots, snapshot_name)
    /\ get(s.snapshots, snapshot_name) # <<>>

\* state.snapshots.contains_key(&snapshot_name) in rss_feed
has_snapshot(s, snapshot_name) == contains_key(s.snapshots, snapshot_name)

\* A compiler applied to a path.  The result: the State after the call, whether
\* it succeeded, and the metadata map.
RECURSIVE compile(_, _, _)
compile(s, c, path) ==
    LET s1 == [s EXCEPT !.calls = Append(@, [fn |-> "compile", c |-> c, path |-> path])] IN
    CASE c.kind = "pandoc" ->
            [s |-> s1, ok |-> TRUE, val |-> pandoc_out(path), err |-> NoErr]
      [] c.kind = "fail" ->
            [s |-> s1, ok |-> FALSE, val |-> EmptyMap, err |-> "compiler"]
      [] c.kind = "snap" ->
            LET p == IF starts_with(path, parent(s1.output_dir))
                     THEN strip_prefix(path, parent(s1.output_dir)) ELSE path
            IN [s |-> add_to_snapshot(s1, c.name, uuid_from_path(p)),
                ok |-> TRUE, val |-> EmptyMap, err |-> NoErr]
      [] c.kind = "rss_feed" ->
            IF ~has_snapshot(s1, c.name)
            THEN [s |-> s1, ok |-> FALSE, val |-> EmptyMap, err |-> "nosnapshot"]
            ELSE LET snapshot == get(s1.snapshots, c.name) IN
                 IF \E i \in 1..Len(snapshot) : ~contains_key(s1.artifacts, snapshot[i])
                 THEN \* state.artifacts[&artifact] panics
                      [s |-> [s1 EXCEPT !.panicked = TRUE], ok |-> FALSE,
                       val |-> EmptyMap, err |-> NoErr]
                 ELSE [s |-> s1, ok |-> TRUE,
                       val |-> [body |-> <<"rss">> \o rss_items(s1, snapshot)],
                       err |-> NoErr]
      [] OTHER -> \* compiler_seq
            LET a == compile(s1, c.a, path) IN
            IF ~a.ok THEN a
            ELSE LET b == compile(a.s, c.b, path) IN
                 IF ~b.ok THEN b
                 ELSE [s |-> b.s, ok |-> TRUE, val |-> map_extend(a.val, b.val),
                       err |-> NoErr]

-----------------------------------------------------------------------------
(* State::add_page *)

\* resource.strip_prefix(output_dir().parent()).unwrap_or(&resource)
normalized(s, resource) ==
    IF starts_with(resource, parent(s.output_dir))
    THEN strip_prefix(resource, parent(s.output_dir)) ELSE resource

add_page_result(s, ok, uuid, enq, e, metadata) ==
    [s |-> s, ok |-> ok, val |-> uuid, enq |-> enq, err |-> e, metadata |-> metadata]

\* A mutant: the page is stale only if the source and the renderer both are.
page_stale_and(c1, renderer, dest) ==
    IF ~c1.ret THEN c1 ELSE renderer_check_mtime(c1.s, renderer, dest)

\* self.check_mtime(&dest, &resource) || renderer.check_mtime(self, &dest), on the
\* result c1 of the first check: the second runs only when the first is false.
page_stale(c1, renderer, dest) ==
    IF c1.ret THEN c1 ELSE renderer_check_mtime(c1.s, renderer, dest)

\* A mutant: the artifact of a stale page is not stored.
add_page_insert_action(c2, artifact, dest, renderer) ==
    IF c2.ret
    THEN add_page_result(
            enqueue(c2.s, dest, BuildAction(artifact.uuid, renderer)),
            TRUE, artifact.uuid, TRUE, NoErr, artifact.metadata)
    ELSE add_page_result(
            [c2.s EXCEPT !.artifacts = insert(@, artifact.uuid, artifact)],
            TRUE, artifact.uuid, FALSE, NoErr, artifact.metadata)

\* The two branches of add_page on the result c2 of the staleness checks
add_page_insert(c2, artifact, dest, renderer) ==
    IF c2.ret
    THEN add_page_result(
            enqueue([c2.s EXCEPT !.artifacts = insert(@, artifact.uuid, artifact)],
                    dest, BuildAction(artifact.uuid, renderer)),
            TRUE, artifact.uuid, TRUE, NoErr, artifact.metadata)
    ELSE add_page_result(
            [c2.s EXCEPT !.artifacts = insert(@, artifact.uuid, artifact)],
            TRUE, artifact.uuid, FALSE, NoErr, artifact.metadata)

\* A mutant: a page whose content date is unknown is stored before the error
\* is returned.
add_page_compiled_stored(m, dest, resource, renderer) ==
    IF ~m.ok
    THEN add_page_result(m.s, FALSE, uuid_from_path(resource), FALSE, m.err, m.val)
    ELSE IF ~git_log(resource).ok
    THEN add_page_result(
            [m.s EXCEPT !.artifacts = insert(@, uuid_from_path(resource),
                BuildArtifact(uuid_from_path(resource), dest, resource, m.val,
                              modified_date(m.s, resource), 0))],
            FALSE, uuid_from_path(resource), FALSE, "gitdate", m.val)
    ELSE add_page_insert(
            page_stale(check_mtime(m.s, dest, resource), renderer, dest),
            BuildArtifact(uuid_from_path(resource), dest, resource, m.val,
                          modified_date(m.s, resource), git_log(resource).date),
            dest, renderer)

\* add_page after the compiler has returned m
add_page_compiled(m, dest, resource, renderer) ==
    IF ~m.ok                \* compiler(self, &resource)?  (or it panicked)
    THEN add_page_result(m.s, FALSE, uuid_from_path(resource), FALSE, m.err, m.val)
    ELSE IF ~git_log(resource).ok      \* parse_from_rfc3339(..)?
    THEN add_page_result(m.s, FALSE, uuid_from_path(resource), FALSE, "gitdate", m.val)
    ELSE add_page_insert(
            page_stale(check_mtime(m.s, dest, resource), renderer, dest),
            BuildArtifact(uuid_from_path(resource), dest, resource, m.val,
                          modified_date(m.s, resource), git_log(resource).date),
            dest, renderer)

\* A mutant: the compiler runs only when the page is found stale.
add_page_lazy(s, dest, resource, compiler, renderer) ==
    IF page_stale(check_mtime(s, dest, normalized(s, resource)), renderer, dest).ret
    THEN add_page_compiled(compile(s, compiler, normalized(s, resource)),
                           dest, normalized(s, resource), renderer)
    ELSE add_page_compiled([s |-> s, ok |-> TRUE, val |-> EmptyMap, err |-> NoErr],
                           dest, normalized(s, resource), renderer)

\* The result: the State after the call, Ok(uuid) or Err(err), whether an action
\* was enqueued, and the metadata the compiler returned.
add_page(s, dest, resource, compiler, renderer) ==
    add_page_compiled(compile(s, compiler, normalized(s, resource)),
                      dest, normalized(s, resource), renderer)

-----------------------------------------------------------------------------
(* Route (src/src/route.rs) and the rules (src/src/rules.rs) *)

RouteId == [kind |-> "Id"]
RouteConst(p) == [kind |-> "Const", path |-> p]
RouteSetExtension(ext) == [kind |-> "SetExtension", ext |-> ext]

route_apply(route, path) ==
    CASE route.kind = "Id" -> path
      [] route.kind = "Const" -> route.path
      [] OTHER -> set_extension(path, route.ext)

\* A rule is a closure FnOnce(&mut State) -> Result<()>; entries is what the
\* rule's pattern lists: absolute paths of files under the working directory.
MatchPattern(entries, route, renderer, compiler) ==
    [kind |-> "match_pattern", entries |-> entries, route |-> route,
     renderer |-> renderer, compiler |-> compiler]
Create(path, compiler) == [kind |-> "create", path |-> path, compiler |-> compiler]
Copy(entries, route) == [kind |-> "copy", entries |-> entries, route |-> route]
BuildRssFeed(path, compiler) ==
    [kind |-> "build_rss_feed", path |-> path, compiler |-> compiler]

rule_result(a) == [s |-> a.s, ok |-> a.ok /\ ~a.s.panicked, err |-> a.err]

\* The loop of match_pattern.  The result: the State and Ok(()) or Err(err).
RECURSIVE match_pattern(_, _, _, _, _), match_pattern_next(_, _, _, _, _)
match_pattern(s, entries, route, renderer, compiler) ==
    IF entries = <<>> THEN [s |-> s, ok |-> TRUE, err |-> NoErr]
    ELSE IF extension(Head(entries)) # <<"md">> /\ extension(Head(entries)) # <<"markdown">>
    THEN match_pattern(s, Tail(entries), route, renderer, compiler)
    ELSE IF ~starts_with(Head(entries), current_dir)
    THEN [s |-> s, ok |-> FALSE, err |-> "strip_prefix"]
    ELSE match_pattern_next(
            add_page(s, route_apply(route, strip_prefix(Head(entries), current_dir)),
                     Head(entries), compiler, renderer),
            Tail(entries), route, renderer, compiler)

\* state.add_page(..)? and the rest of the loop
match_pattern_next(a, entries, route, renderer, compiler) ==
    IF ~a.ok \/ a.s.panicked THEN rule_result(a)
    ELSE match_pattern(a.s, entries, route, renderer, compiler)

\* The loop of copy
RECURSIVE copy(_, _, _), copy_next(_, _, _)
copy(s, entries, route) ==
    IF entries = <<>> THEN [s |-> s, ok |-> TRUE, err |-> NoErr]
    ELSE IF ~starts_with(Head(entries), current_dir)
    THEN [s |-> s, ok |-> FALSE, err |-> "strip_prefix"]
    ELSE copy_next(
            copy_page(s, strip_prefix(Head(entries), current_dir),
                      route_apply(route, strip_prefix(Head(entries), current_dir))),
            Tail(entries), route)

copy_next(c, entries, route) ==
    IF c.s.panicked THEN [s |-> c.s, ok |-> FALSE, err |-> NoErr]
    ELSE copy(c.s, entries, route)

\* A rule applied to the State
run_rule(s, rule) ==
    CASE rule.kind = "match_pattern" ->
            match_pattern(s, rule.entries, rule.route, rule.renderer, rule.compiler)
      [] rule.kind = "copy" -> copy(s, rule.entries, rule.route)
      [] rule.kind = "create" ->
            rule_result(add_page(s, rule.path, rule.path, rule.compiler, RendererNone))
      [] OTHER -> \* build_rss_feed
            rule_result(add_page(s, rule.path, rule.path, rule.compiler, CustomBody))

\* if let Err(err) = rule(self) { self.err = Some(err) }
latch(r) == IF ~r.ok /\ ~r.s.panicked THEN [r.s EXCEPT !.err = r.err] ELSE r.s

called(s, rule) == [s EXCEPT !.calls = Append(@, [fn |-> "rule", rule |-> rule])]

\* A mutant of State::then: the rule runs whatever the latch holds.
then_unlatched(s, rule) == latch(run_rule(called(s, rule), rule))

\* State::then: the State after the call
then(s, rule) ==
    IF s.err = NoErr THEN latch(run_rule(called(s, rule), rule)) ELSE s

-----------------------------------------------------------------------------
(* State::finish *)

NoFailure == [at |-> 0, step |-> "none"]

\* artifacts[&uuid].updated_date for each queued action
action_dates(s, actions) ==
    [i \in 1..Len(actions) |-> get(s.artifacts, actions[i].val.src).updated_date]

artifact_dates(arts) == [i \in 1..Len(arts) |-> arts[i].val.updated_date]

Result(s, ok, e) == [s |-> s, ok |-> ok, err |-> e]

refused(io, i, step) == io.at = i /\ io.step = step

\* the action is done: its log entry is closed and the path buffer popped
committed(s, fs_depth) ==
    [s EXCEPT !.log[Len(s.log)].done = TRUE,
              !.output_dir = pop_n(@, Len(@) - fs_depth)]

\* The loop of finish over the drained actions, from the i-th on.  io names the
\* action at which the file system refuses a step, and the step.
RECURSIVE finish_loop(_, _, _, _, _), finish_rendered(_, _, _, _, _),
          finish_write(_, _, _, _, _, _), finish_created(_, _, _, _, _, _)
finish_loop(s, actions, i, fs_depth, io) ==
    IF i > Len(actions) THEN Result(s, TRUE, NoErr)
    ELSE IF ~contains_key(s.artifacts, actions[i].val.src)
    THEN Result([s EXCEPT !.panicked = TRUE], FALSE, NoErr)
    ELSE finish_rendered(
            IF actions[i].val.to.kind = "None"
            THEN [s |-> s, ok |-> TRUE, out |-> <<>>, err |-> NoErr]
            ELSE render(s, actions[i].val.to,
                        map_insert(get(s.artifacts, actions[i].val.src).metadata,
                                   "ROOT_PREFIX", url_root)),
            actions, i, fs_depth, io)

\* the action's contents r are rendered: the destination is resolved
finish_rendered(r, actions, i, fs_depth, io) ==
    IF r.s.panicked THEN Result(r.s, FALSE, NoErr)
    ELSE IF ~r.ok THEN Result(r.s, FALSE, r.err)
    ELSE IF is_absolute(actions[i].key) /\ ~starts_with(actions[i].key, current_dir)
    THEN Result(r.s, FALSE, "strip_prefix")
    ELSE finish_write(
            [r.s EXCEPT !.output_dir =
                push(@, IF is_absolute(actions[i].key)
                        THEN strip_prefix(actions[i].key, current_dir)
                        ELSE actions[i].key),
                        !.log = Append(@, [path |-> actions[i].key,
                                           src |-> actions[i].val.src,
                                           to |-> actions[i].val.to.kind,
                                           renderer |-> actions[i].val.to,
                                           file |-> push(r.s.output_dir,
                                                IF is_absolute(actions[i].key)
                                                THEN strip_prefix(actions[i].key, current_dir)
                                                ELSE actions[i].key),
                                           done |-> FALSE])],
            r.out, actions, i, fs_depth, io)

\* the path buffer of s names the file: directories, then the write or the copy
finish_write(s, out, actions, i, fs_depth, io) ==
    \* fs::create_dir_all(parent): "already exists" is let through
    IF refused(io, i, "create_dir_all") \/ under_a_file(s.fs, parent(s.output_dir))
    THEN Result(s, FALSE, "io")
    ELSE finish_created(
            IF is_file(s.fs, parent(s.output_dir)) THEN s
            ELSE [s EXCEPT !.fs = create_dir_all(@, parent(s.output_dir), s.now)],
            out, actions, i, fs_depth, io)

\* A mutant: a refused write is reported after the remaining actions are done.
finish_created_late(s, out, actions, i, fs_depth, io) ==
    IF refused(io, i, "write")
    THEN [finish_loop([s EXCEPT !.output_dir = pop_n(@, Len(@) - fs_depth)],
                      actions, i + 1, fs_depth, NoFailure)
            EXCEPT !.ok = FALSE, !.err = "io"]
    ELSE IF refused(io, i, "open") THEN Result(s, FALSE, "io")
    ELSE finish_loop(
            committed([s EXCEPT !.fs = write_file(@, s.output_dir, s.now, out)],
                      fs_depth),
            actions, i + 1, fs_depth, io)

\* the directories exist: File::create and write_all, or fs::copy
finish_created(s, out, actions, i, fs_depth, io) ==
    IF actions[i].val.to.kind # "None"
    THEN \* File::create, write_all
         IF \/ refused(io, i, "open") \/ under_a_file(s.fs, s.output_dir)
            \/ is_dir(s.fs, s.output_dir)
         THEN Result(s, FALSE, "io")
         ELSE IF refused(io, i, "write")
         THEN Result([s EXCEPT !.fs = write_file(@, s.output_dir, s.now, <<>>)],
                     FALSE, "io")
         ELSE finish_loop(
                committed([s EXCEPT !.fs = write_file(@, s.output_dir, s.now, out)],
                          fs_depth),
                actions, i + 1, fs_depth, io)
    ELSE \* fs::copy(src_path, &self.output_dir)
         IF get(s.artifacts, actions[i].val.src).resource = s.output_dir
         THEN \* assert!(src_path != &self.output_dir)
              Result([s EXCEPT !.panicked = TRUE], FALSE, NoErr)
         ELSE IF \/ refused(io, i, "open")
                 \/ under_a_file(s.fs, s.output_dir) \/ is_dir(s.fs, s.output_dir)
                 \/ ~is_file(s.fs, join(current_dir,
                                        get(s.artifacts, actions[i].val.src).resource))
         THEN Result(s, FALSE, "io")
         ELSE IF refused(io, i, "write")
         THEN Result([s EXCEPT !.fs = write_file(@, s.output_dir, s.now, <<>>)],
                     FALSE, "io")
         ELSE finish_loop(
                committed([s EXCEPT
                    !.fs = copy_file(@, join(current_dir,
                                        get(s.artifacts, actions[i].val.src).resource),
                                     s.output_dir, s.now)], fs_depth),
                actions, i + 1, fs_depth, io)

\* A mutant: the actions are processed but left in the queue.
finish_sorted_kept(s, io) ==
    LET r == finish_loop([s EXCEPT !.order = <<>>],
                         sort_by(s.build_actions, action_dates(s, s.build_actions)),
                         1, Len(s.output_dir), io)
    IN r

\* finish once the artifacts are sorted: the actions are sorted and drained
finish_sorted(s, io) ==
    finish_loop([s EXCEPT !.build_actions = <<>>, !.order = <<>>],
                sort_by(s.build_actions, action_dates(s, s.build_actions)),
                1, Len(s.output_dir), io)

\* A mutant of State::finish: the latch is not consulted.
finish_unlatched(s, io) ==
    IF s.build_actions = <<>> THEN Result(s, TRUE, NoErr)
    ELSE finish_sorted(
            [s EXCEPT !.artifacts = sort_by(@, artifact_dates(@))], io)

\* A mutant of State::finish: an empty queue is an error.
finish_nonempty(s, io) ==
    IF s.err # NoErr THEN Result([s EXCEPT !.err = NoErr], FALSE, s.err)
    ELSE IF s.build_actions = <<>> THEN Result(s, FALSE, "nothing")
    ELSE finish_sorted(
            [s EXCEPT !.artifacts = sort_by(@, artifact_dates(@))], io)

\* State::finish: the State after the call and Ok(()) or Err(err)
finish(s, io) ==
    IF s.err # NoErr
    THEN \* self.err.take()
         Result([s EXCEPT !.err = NoErr], FALSE, s.err)
    ELSE IF s.build_actions = <<>>
    THEN Result(s, TRUE, NoErr)
    ELSE finish_sorted(
            [s EXCEPT !.artifacts = sort_by(@, artifact_dates(@))], io)

-----------------------------------------------------------------------------
(* The site of the model: the files of the working directory and the values *)
(* the operations are called with                                          *)

ResA == <<<<"a", "md">>>>
ResB == <<<<"b", "md">>>>
ResC == <<<<"c", "css">>>>
ResX == <<<<"x", "md">>>>          \* a file without history
DestA == <<<<"a", "html">>>>
DestB == <<<<"b", "html">>>>
DestC == <<<<"c", "css">>>>
DestDeep == <<<<"x">>, <<"a", "html">>>>
DestOld == <<<<"old", "html">>>>    \* a file of the output directory without mtime
ResOld == <<<<"_site">>, <<"old", "html">>>>   \* the same file, from the working directory
Feed == <<<<"rss", "xml">>>>
T1 == <<"t1">>
T2 == <<"t2">>
Absolute(p) == current_dir \o p

Directories == {<<Root>>, current_dir, OutputDir0, templates_dir}
SourceFiles == {Absolute(ResA), Absolute(ResB), Absolute(ResC),
                template_file(T1), template_file(T2)}
Edited == {Absolute(ResA), template_file(T2)}

Page(dest, resource, compiler, renderer) ==
    [dest |-> dest, resource |-> resource, compiler |-> compiler, renderer |-> renderer]
TwoStages == Pipeline(<<LoadAndApplyTemplate(T1), LoadAndApplyTemplate(T2)>>)
Pages ==
    {Page(DestA, ResA, Pandoc, LoadAndApplyTemplate(T1)),
     Page(DestA, Absolute(ResA), Pandoc, TwoStages),
     Page(DestB, ResB, CompilerSeq(Pandoc, Snap("feed")), LoadAndApplyTemplate(T1)),
     Page(DestA, ResB, Pandoc, CustomBody),
     Page(Absolute(DestA), ResA, Pandoc, LoadAndApplyTemplate(T1)),
     Page(Absolute(DestDeep), ResA, Pandoc, LoadAndApplyTemplate(T1)),
     Page(DestB, ResB, Failing, LoadAndApplyTemplate(T1)),
     Page(DestB, ResX, Pandoc, LoadAndApplyTemplate(T1)),
     Page(DestB, ResA, Pandoc, RendererNone),
     Page(DestB, ResB, Pandoc, CustomRegister(ResC, DestC))}
Copies ==
    {[resource |-> ResC, dest |-> DestC], [resource |-> ResB, dest |-> DestA],
     [resource |-> ResX, dest |-> DestC], [resource |-> ResOld, dest |-> DestOld],
     [resource |-> Absolute(ResC), dest |-> DestC]}
Checks ==
    {[dest |-> DestA, resource |-> ResA], [dest |-> Absolute(DestA), resource |-> ResA],
     [dest |-> DestA, resource |-> ResX], [dest |-> DestOld, resource |-> ResA]}
Rules ==
    {MatchPattern(<<Absolute(ResA), Absolute(ResC), Absolute(ResB)>>,
                  RouteSetExtension("html"), LoadAndApplyTemplate(T1),
                  CompilerSeq(Pandoc, Snap("feed"))),
     MatchPattern(<<Absolute(ResB), Absolute(ResA)>>, RouteId, TwoStages, Failing),
     Copy(<<Absolute(ResC), Absolute(ResB)>>, RouteId),
     Create(ResB, Pandoc),
     BuildRssFeed(Feed, RssFeed("feed")),
     BuildRssFeed(ResA, RssFeed("feed"))}
Failures ==
    {NoFailure, [at |-> 1, step |-> "create_dir_all"], [at |-> 1, step |-> "write"],
     [at |-> 2, step |-> "open"]}

-----------------------------------------------------------------------------
(* The state machine *)

Init ==
    /\ snapshots = <<>>
    /\ artifacts = <<>>
    /\ build_actions = <<>>
    /\ output_dir = OutputDir0
    /\ err = NoErr
    /\ force_generate \in BOOLEAN      \* env::var("FORCE").is_ok()
    /\ fs = [p \in Directories \cup SourceFiles \cup {OutputDir0 \o DestOld} |->
                IF p \in Directories THEN Dir(1)
                ELSE IF p \in SourceFiles THEN File(1, <<"src", p[Len(p)][1]>>)
                ELSE [File(1, <<"old">>) EXCEPT !.readable = FALSE]]
    /\ now = 1
    /\ panicked = FALSE
    /\ calls = <<>>
    /\ log = <<>>
    /\ order = <<>>
    /\ last = [op |-> "new"]
    /\ ops = 0
    /\ failed = "no"

Bounded(s) ==
    \A i \in 1..Len(s.snapshots) : Len(s.snapshots[i].val) <= MaxSnapshot

\* state.then(rule)
Then(rule) ==
    /\ ~panicked
    /\ \E s \in {then(St, rule)} :
       /\ Bounded(s)
       /\ Set(s)
       /\ last' = [op |-> "then", rule |-> rule, ok |-> s.err = NoErr]
       /\ failed' = IF err = NoErr /\ s.err # NoErr THEN "latched" ELSE failed

\* state.finish()
Finish(io) ==
    /\ ~panicked
    /\ io.at <= Len(build_actions)
    /\ \E r \in {finish(St, io)} :
       /\ Set(r.s)
       /\ last' = [op |-> "finish", io |-> io, ok |-> r.ok, err |-> r.err]
       /\ failed' = IF failed = "latched" THEN "reported" ELSE failed

\* state.add_page(dest, resource, &compiler, renderer)
AddPage(dest, resource, compiler, renderer) ==
    /\ ~panicked
    /\ \E r \in {add_page(St, dest, resource, compiler, renderer)} :
       /\ Bounded(r.s)
       /\ Set(r.s)
       /\ last' = [op |-> "add_page", dest |-> dest, resource |-> resource,
                   compiler |-> compiler, renderer |-> renderer,
                   ok |-> r.ok, val |-> r.val, enq |-> r.enq, err |-> r.err,
                   metadata |-> r.metadata]
       /\ UNCHANGED failed

\* state.copy_page(resource, dest)
CopyPage(resource, dest) ==
    /\ ~panicked
    /\ \E r \in {copy_page(St, resource, dest)} :
       /\ Set(r.s)
       /\ last' = [op |-> "copy_page", dest |-> dest, resource |-> resource,
                   ok |-> r.ok, val |-> r.val, enq |-> r.enq]
       /\ UNCHANGED failed

\* state.check_mtime(dest, resource)
CheckMtime(dest, resource) ==
    /\ ~panicked
    /\ \E r \in {check_mtime(St, dest, resource)} :
       /\ Set(r.s)
       /\ last' = [op |-> "check_mtime", dest |-> dest, resource |-> resource,
                   ret |-> r.ret]
       /\ UNCHANGED failed

\* state.add_to_snapshot(key, artifact)
AddToSnapshot(key, artifact) ==
    /\ ~panicked
    /\ \E s \in {add_to_snapshot(St, key, artifact)} :
       /\ Bounded(s)
       /\ Set(s)
       /\ last' = [op |-> "add_to_snapshot", key |-> key, artifact |-> artifact]
       /\ UNCHANGED failed

\* state.add_snapshot(key)
AddSnapshot(key) ==
    /\ ~panicked
    /\ Set(add_snapshot(St, key))
    /\ last' = [op |-> "add_snapshot", key |-> key]
    /\ UNCHANGED failed

\* The environment: time passes and a source file or a template is edited
Edit(p) ==
    /\ now < MaxTime
    /\ p \in DOMAIN fs
    /\ UNCHANGED <<snapshots, artifacts, build_actions, output_dir, err,
                   force_generate, panicked, order, ops, failed>>
    /\ now' = now + 1
    /\ fs' = [fs EXCEPT ![p].mtime = now + 1]
    /\ calls' = <<>>
    /\ log' = <<>>
    /\ last' = [op |-> "edit"]

Next ==
    \/ \E rule \in Rules : Then(rule)
    \/ \E io \in Failures : Finish(io)
    \/ \E p \in Pages : AddPage(p.dest, p.resource, p.compiler, p.renderer)
    \/ \E c \in Copies : CopyPage(c.resource, c.dest)
    \/ \E c \in Checks : CheckMtime(c.dest, c.resource)
    \/ \E a \in {ResA, ResX} : AddToSnapshot("feed", uuid_from_path(a))
    \/ AddSnapshot("feed")
    \/ \E p \in Edited : Edit(p)

Spec == Init /\ [][Next]_vars

-----------------------------------------------------------------------------
(* A run composed as in examples/bin.rs: state.then(..)...then(..).finish() *)

\* the rules of the site and a match_pattern rule over a page without history
ExampleRules ==
    Rules \cup {MatchPattern(<<Absolute(ResA), Absolute(ResX)>>,
                             RouteSetExtension("html"), LoadAndApplyTemplate(T1),
                             CompilerSeq(Pandoc, Snap("feed")))}

NextExample ==
    \/ \E rule \in ExampleRules : last.op \in {"new", "then"} /\ Then(rule)
    \/ \E io \in Failures : last.op = "then" /\ Finish(io)

SpecExample == Init /\ [][NextExample]_vars

-----------------------------------------------------------------------------
(* Compilers on their own: one compiler is applied to one path *)

Simple == {Pandoc, Failing, Snap("feed"), RssFeed("feed")}
Compilers == Simple \cup {CompilerSeq(a, b) : a, b \in Simple}

\* compiler(&mut state, &path)
Compile(c, path) ==
    /\ ~panicked
    /\ \E r \in {compile(St, c, path)} :
       /\ Bounded(r.s)
       /\ Set(r.s)
       /\ last' = [op |-> "compile", c |-> c, path |-> path,
                   ok |-> r.ok, val |-> r.val, err |-> r.err]
       /\ UNCHANGED failed

NextCompile ==
    \/ \E c \in Compilers, path \in {ResA, ResB} : Compile(c, path)
    \/ AddSnapshot("feed")

SpecCompile == Init /\ [][NextCompile]_vars

-----------------------------------------------------------------------------
(* Renderer::render on its own: one renderer is applied to one context *)

TMissing == <<"t3">>        \* a template that is not in the templates directory
StageSet == {LoadAndApplyTemplate(T1), LoadAndApplyTemplate(T2),
             LoadAndApplyTemplate(TMissing), CustomBody}
Pipelines == {Pipeline(list) : list \in UNION {[1..n -> StageSet] : n \in 0..MaxStages}}
Contexts == {[title |-> <<"t">>], [title |-> <<"t">>, body |-> <<"b">>]}

\* renderer.render(&mut state, &mut context)
Render(r, context) ==
    /\ last.op = "new"
    /\ \E res \in {render(St, r, context)} :
       /\ Set(res.s)
       /\ last' = [op |-> "render", r |-> r, before |-> context,
                   context |-> res.context, ok |-> res.ok, out |-> res.out,
                   err |-> res.err]
       /\ UNCHANGED failed

NextRender == \E r \in Pipelines, context \in Contexts : Render(r, context)

SpecRender == Init /\ [][NextRender]_vars

-----------------------------------------------------------------------------
(* Properties *)

\* the step is a call of the operation op
Call(op) == last'.op = op /\ ops' # ops

\* C1 as the specification states it: once a rule passed to then has returned
\* an error, every later then runs no rule, leaves artifacts, build actions and
\* snapshots unchanged, keeps the first error latched and returns.
C1_then_noop_after_any_error ==
    [][(Call("then") /\ failed # "no") =>
        /\ calls' = <<>>
        /\ artifacts' = artifacts
        /\ build_actions' = build_actions
        /\ snapshots' = snapshots
        /\ err' = err /\ err' # NoErr
        /\ ~panicked']_vars

\* C1, amended: while the error is latched, that is until finish has taken it,
\* a call of then runs no rule, leaves artifacts, build actions and snapshots
\* unchanged, keeps the latched error and returns.
C1_then_noop_while_latched ==
    [][(Call("then") /\ err # NoErr) =>
        /\ calls' = <<>>
        /\ artifacts' = artifacts
        /\ build_actions' = build_actions
        /\ snapshots' = snapshots
        /\ err' = err
        /\ ~panicked']_vars

\* then was called with an error latched, after the State had registered pages
C1_witness ==
    /\ last.op = "then" /\ err # NoErr /\ calls = <<>>
    /\ failed = "latched" /\ artifacts # <<>>

\* C2: finish called with an error latched returns that error, processes no
\* action, writes no file and leaves the artifact store, the action queue and
\* the path buffer as they were.
C2_finish_returns_latched_error ==
    [][(Call("finish") /\ err # NoErr) =>
        /\ ~last'.ok /\ last'.err = err
        /\ log' = <<>> /\ calls' = <<>>
        /\ fs' = fs
        /\ artifacts' = artifacts
        /\ build_actions' = build_actions
        /\ output_dir' = output_dir]_vars

\* finish has returned the error of a compiler with actions left in the queue
C2_witness ==
    /\ last.op = "finish" /\ ~last.ok /\ last.err = "compiler"
    /\ failed = "reported" /\ build_actions # <<>>

\* C3: finish called with no error latched and an empty queue returns success,
\* writes no file and changes neither artifacts, snapshots nor the path buffer.
C3_empty_finish_is_noop ==
    [][(Call("finish") /\ err = NoErr /\ build_actions = <<>>) =>
        /\ last'.ok
        /\ log' = <<>> /\ calls' = <<>>
        /\ fs' = fs
        /\ artifacts' = artifacts
        /\ snapshots' = snapshots
        /\ output_dir' = output_dir
        /\ build_actions' = <<>>]_vars

\* finish has returned success on an empty queue, with artifacts in the store
C3_witness ==
    /\ last.op = "finish" /\ last.ok /\ log = <<>>
    /\ failed = "no" /\ artifacts # <<>> /\ build_actions = <<>>

position(seq, x) == CHOOSE i \in 1..Len(seq) : seq[i] = x

\* The first sentence of C4: a finish that reaches its loop processes the
\* actions in ascending order of their artifact's updated_date, and actions of
\* equal date in the order in which their destinations were first inserted.
finish_processing_order ==
    [][(Call("finish") /\ err = NoErr) =>
        \A i, j \in 1..Len(log') : i < j =>
            LET di == get(artifacts, log'[i].src).updated_date
                dj == get(artifacts, log'[j].src).updated_date
            IN \/ di < dj
               \/ di = dj /\ position(order, log'[i].path) < position(order, log'[j].path)]_vars

C6_one_action_per_destination ==
    /\ \A i, j \in 1..Len(build_actions) :
        build_actions[i].key = build_actions[j].key => i = j
    /\ (last.op = "copy_page" /\ last.ok /\ last.enq) =>
        \A i \in 1..Len(build_actions) :
            build_actions[i].key = last.dest =>
                build_actions[i].val = [src |-> last.val, to |-> RendererNone]
    /\ (last.op = "add_page" /\ last.ok /\ last.enq) =>
        \A i \in 1..Len(build_actions) :
            build_actions[i].key = last.dest =>
                build_actions[i].val = [src |-> last.val, to |-> last.renderer]

\* a page was registered for a destination that another source had queued
C6_witness ==
    /\ last.op = "add_page" /\ last.enq /\ ops = 2
    /\ Len(build_actions) = 1 /\ build_actions[1].key = last.dest
    /\ \E i \in 1..Len(artifacts) :
        artifacts[i].key # last.val /\ artifacts[i].val.path = last.dest

\* the file that is the output directory's dest, and the file of a resource
OutputFile(dest) == OutputDir0 \o dest
SourceFile(resource) == IF is_absolute(resource) THEN resource ELSE current_dir \o resource

\* the source is not newer than an existing, readable destination file
UpToDate(dest_file, src_file) ==
    /\ dest_file \in DOMAIN fs /\ fs[dest_file].readable
    /\ src_file \in DOMAIN fs /\ fs[src_file].readable
    /\ fs[src_file].mtime <= fs[dest_file].mtime

\* C7: with the force flag set check_mtime returns true, every copy_page that
\* returns and every successful add_page enqueues an action for its destination.
C7_force_rebuilds_everything ==
    force_generate =>
        /\ last.op = "check_mtime" => last.ret
        /\ (last.op \in {"copy_page", "add_page"} /\ last.ok) =>
            /\ last.enq
            /\ \E i \in 1..Len(build_actions) :
                build_actions[i].key = last.dest /\ build_actions[i].val.src = last.val

\* with the force flag set a page was enqueued whose output file is up to date
C7_witness ==
    /\ force_generate /\ last.op = "add_page" /\ last.ok /\ last.enq
    /\ ~is_absolute(last.dest)
    /\ UpToDate(OutputFile(last.dest), SourceFile(last.resource))

\* C8: with the force flag unset, check_mtime(dest, source) is true if dest,
\* resolved under the output directory, does not exist, true if either
\* modification time cannot be read, and otherwise true exactly when the
\* source's modification time is strictly greater than the destination's.
C8_check_mtime_compares_mtimes ==
    (last.op = "check_mtime" /\ ~force_generate /\ ~is_absolute(last.dest)) =>
        last.ret = ~UpToDate(OutputFile(last.dest), SourceFile(last.resource))

\* the stages of a renderer, and whether all of them are templates
Stages(r) == IF r.kind = "Pipeline" THEN {r.list[i] : i \in 1..Len(r.list)} ELSE {r}
Templates(r) == \A stage \in Stages(r) : stage.kind = "LoadAndApplyTemplate"

\* the verdict of the staleness check of a file against dest in the current state
Stale(dest, src_file) == force_generate \/ ~UpToDate(push(output_dir, dest), src_file)

\* C9: add_page enqueues the action of a page exactly when its source is stale
\* against the destination or some stage of its renderer is; a template stage
\* is stale when its template file is, a Pipeline when one of its stages is.
C9_stale_iff_source_or_stage_stale ==
    [][(Call("add_page") /\ last'.ok /\ Templates(last'.renderer)) =>
        IF \/ Stale(last'.dest, SourceFile(last'.resource))
           \/ \E stage \in Stages(last'.renderer) :
                Stale(last'.dest, template_file(stage.path))
        THEN \E i \in 1..Len(build_actions') :
                build_actions'[i] = [key |-> last'.dest,
                                     val |-> [src |-> last'.val, to |-> last'.renderer]]
        ELSE build_actions' = build_actions]_vars

\* a page with an up to date source and first template was enqueued because the
\* second template of its pipeline is newer than the output file
C9_witness ==
    /\ last.op = "add_page" /\ last.ok /\ last.enq /\ ~force_generate
    /\ last.renderer = TwoStages
    /\ UpToDate(push(output_dir, last.dest), SourceFile(last.resource))
    /\ UpToDate(push(output_dir, last.dest), template_file(T1))
    /\ ~UpToDate(push(output_dir, last.dest), template_file(T2))

\* C10: add_page invokes its compiler exactly once, stale or not; a page that
\* is not stale is stored with the metadata the compiler returned and no
\* action is enqueued for it.
C10_compiler_runs_once ==
    [][Call("add_page") =>
        /\ Cardinality({i \in 1..Len(calls') :
                calls'[i].fn = "compile" /\ calls'[i].c = last'.compiler}) = 1
        /\ (last'.ok /\ ~last'.enq) =>
            /\ contains_key(artifacts', last'.val)
            /\ get(artifacts', last'.val).metadata =
                    compile(St, last'.compiler, last'.val.name).val
            /\ build_actions' = build_actions]_vars

\* a page found up to date was stored with the metadata of its compiler
C10_witness ==
    /\ last.op = "add_page" /\ last.ok /\ ~last.enq
    /\ Len(calls) = 1 /\ calls[1].fn = "compile"
    /\ get(artifacts, last.val).metadata # EmptyMap
    /\ ~contains_key(build_actions, last.dest)

\* C11: copy_page runs no compiler and records an artifact with empty
\* metadata; a stale copy enqueues a verbatim-copy action for the destination
\* and its artifact's resource is the resource, a cached copy enqueues nothing
\* and its artifact's resource is the destination.
C11_copy_page_records_artifact ==
    [][(Call("copy_page") /\ last'.ok) =>
        /\ calls' = <<>>
        /\ contains_key(artifacts', last'.val)
        /\ get(artifacts', last'.val).metadata = EmptyMap
        /\ get(artifacts', last'.val).path = last'.dest
        /\ IF Stale(last'.dest, SourceFile(last'.resource))
           THEN /\ get(artifacts', last'.val).resource = last'.resource
                /\ \E i \in 1..Len(build_actions') :
                    build_actions'[i] = [key |-> last'.dest,
                                         val |-> [src |-> last'.val, to |-> RendererNone]]
           ELSE /\ get(artifacts', last'.val).resource = last'.dest
                /\ build_actions' = build_actions]_vars

\* a copy was found up to date and recorded with its destination as resource
C11_witness ==
    /\ last.op = "copy_page" /\ last.ok /\ ~last.enq
    /\ last.resource # last.dest
    /\ get(artifacts, last.val).resource = last.dest
    /\ UpToDate(push(output_dir, last.dest), SourceFile(last.resource))

\* the identifiers of the snapshot of a name, none when there is no such snapshot
Snapshot(m, name) == IF contains_key(m, name) THEN get(m, name) ELSE <<>>

\* C12: add_to_snapshot returns, creates the snapshot on first insertion and
\* appends the identifier, duplicates kept; no operation removes or reorders
\* the entries of a snapshot.
C12_snapshots_append_only ==
    [][/\ Call("add_to_snapshot") =>
            /\ ~panicked'
            /\ contains_key(snapshots', last'.key)
            /\ get(snapshots', last'.key) =
                    Append(Snapshot(snapshots, last'.key), last'.artifact)
            /\ \A i \in 1..Len(snapshots') :
                    snapshots'[i].key # last'.key =>
                        i <= Len(snapshots) /\ snapshots'[i] = snapshots[i]
       /\ Len(snapshots) <= Len(snapshots')
       /\ \A i \in 1..Len(snapshots) :
            /\ snapshots'[i].key = snapshots[i].key
            /\ Len(snapshots[i].val) <= Len(snapshots'[i].val)
            /\ SubSeq(snapshots'[i].val, 1, Len(snapshots[i].val)) = snapshots[i].val]_vars

\* an identifier was appended to a snapshot that held it already
C12_witness ==
    /\ last.op = "add_to_snapshot"
    /\ \E i, j \in 1..Len(Snapshot(snapshots, last.key)) :
        i < j /\ get(snapshots, last.key)[i] = get(snapshots, last.key)[j]

\* the step is a call of then that runs the rule build_rss_feed
RunsFeedRule == Call("then") /\ err = NoErr /\ last'.rule.kind = "build_rss_feed"

\* C13 as the specification states it: the rss_feed compiler returns the error
\* of the missing snapshot whenever no identifier was appended under the name.
C13_error_when_nothing_appended ==
    [][(RunsFeedRule /\ Snapshot(snapshots, last'.rule.compiler.name) = <<>>) =>
        err' = "nosnapshot"]_vars

\* C13, amended: the rss_feed compiler returns the error of the missing
\* snapshot exactly when the index has no snapshot of the name, that is when
\* the name was neither initialised by add_snapshot nor appended to.
C13_error_iff_no_snapshot ==
    [][RunsFeedRule =>
        (err' = "nosnapshot" <=> ~contains_key(snapshots, last'.rule.compiler.name))]_vars

\* the feed rule has failed on a State without the snapshot it reads
C13_witness ==
    /\ last.op = "then" /\ last.rule.kind = "build_rss_feed"
    /\ err = "nosnapshot" /\ snapshots = <<>> /\ artifacts # <<>>

\* the file a resource is read from by fs::copy
CopySource(uuid) == join(current_dir, get(artifacts, uuid).resource)

\* C14: a copy action whose source and resolved destination are the same file
\* makes finish fail hard before anything is copied, and the file keeps its
\* contents.
C14_no_copy_onto_itself ==
    [][Call("finish") =>
        \A i \in 1..Len(log') :
            (log'[i].to = "None" /\ CopySource(log'[i].src) = log'[i].file) =>
                /\ ~log'[i].done
                /\ panicked'
                /\ fs'[log'[i].file].data = fs[log'[i].file].data]_vars

\* the rule of the call of then was run
RuleRan == \E i \in 1..Len(calls) : calls[i].fn = "rule"

\* the entries of a match_pattern rule that are pages
Markdown(entries) ==
    {entries[k] : k \in {n \in 1..Len(entries) :
        extension(entries[n]) \in {<<"md">>, <<"markdown">>}}}

\* every page of a match_pattern rule that has returned Ok is registered and,
\* when its compiler fills the snapshot feed, listed in that snapshot
RuleCompleted ==
    (last.rule.kind = "match_pattern" /\ RuleRan /\ err = NoErr /\ ~panicked) =>
        \A e \in Markdown(last.rule.entries) :
            \E i \in 1..Len(artifacts) :
                /\ artifacts[i].val.resource \in {e, strip_prefix(e, current_dir)}
                /\ last.rule.compiler = CompilerSeq(Pandoc, Snap("feed")) =>
                    \E j \in 1..Len(Snapshot(snapshots, "feed")) :
                        get(snapshots, "feed")[j] = artifacts[i].key

\* C15 as the specification states it: a rule runs in the call of then it is
\* passed to, to completion, and only if every rule passed before it succeeded.
C15_rule_runs_only_if_none_failed ==
    [][Call("then") => (RuleRan' => failed = "no") /\ RuleCompleted']_vars

\* C15, amended: a rule runs in the call of then it is passed to, to
\* completion, exactly when every rule passed since the last finish succeeded;
\* a snapshot-producing rule that returned has registered all its pages.
C15_rule_runs_iff_not_latched ==
    [][Call("then") => (RuleRan' <=> failed # "latched") /\ RuleCompleted']_vars

\* the feed rule ran after the rule that fills its snapshot had completed
C15_witness ==
    /\ last.op = "then" /\ last.rule.kind = "build_rss_feed" /\ RuleRan
    /\ err = NoErr /\ failed = "no"
    /\ Len(Snapshot(snapshots, "feed")) >= 2

\* the file of a destination under the output directory
Resolved(dest) ==
    OutputDir0 \o (IF is_absolute(dest) THEN strip_prefix(dest, current_dir) ELSE dest)

\* C16: the file finish writes or copies to for an action is the destination
\* resolved under the output directory, an absolute destination being made
\* relative to the working directory first.
C16_finish_writes_under_output_dir ==
    [][Call("finish") =>
        \A i \in 1..Len(log') :
            log'[i].done => log'[i].file = Resolved(log'[i].path)]_vars

\* the context the k-th stage of a pipeline is given: the initial one with, from
\* the second stage on, the output of the stage before as its body
RECURSIVE StageContext(_, _, _)
StageContext(list, context, k) ==
    IF k <= 1 THEN context
    ELSE map_insert(StageContext(list, context, k - 1), "body",
                    render(St, list[k - 1], StageContext(list, context, k - 1)).out)

\* what the k-th stage returns on that context
StageResult(list, context, k) == render(St, list[k], StageContext(list, context, k))

\* the first stage that fails, 0 when none does
FirstFailure(list, context) ==
    LET fails == {k \in 1..Len(list) : ~StageResult(list, context, k).ok} IN
    IF fails = {} THEN 0 ELSE CHOOSE k \in fails : \A j \in fails : k <= j

\* C17: a Pipeline runs its stages in order, each on the context holding the
\* output of the stage before as body, and returns the output of the last one;
\* the error of a stage is returned at once and no later stage runs; an empty
\* pipeline returns the empty string.
C17_pipeline_threads_body ==
    last.op = "render" =>
        LET list == last.r.list
            n == Len(list)
            f == FirstFailure(list, last.before)
            ran == IF f = 0 THEN n ELSE f
        IN /\ Len(calls) = ran + 1
           /\ \A k \in 1..ran : calls[k + 1].r = list[k]
           /\ last.context = StageContext(list, last.before, ran)
           /\ IF f # 0
              THEN ~last.ok /\ last.err = StageResult(list, last.before, f).err
              ELSE /\ last.ok
                   /\ last.out = IF n = 0 THEN <<>>
                                 ELSE StageResult(list, last.before, n).out

\* a pipeline of three stages returned the third template applied to the
\* second applied to the first
C17_witness ==
    /\ last.op = "render" /\ last.ok /\ Len(last.r.list) = 3
    /\ \A k \in 1..3 : last.r.list[k].kind = "LoadAndApplyTemplate"
    /\ last.r.list[1] # last.r.list[2]
    /\ "body" \in DOMAIN last.before
    /\ last.out = <<last.r.list[3].path[1], last.r.list[2].path[1],
                    last.r.list[1].path[1], "b">>

\* C19: check_mtime leaves the State unchanged: whatever the destination and the
\* return path, the path buffer after the call equals its value before the call,
\* and artifacts, build actions and snapshots are not modified.
C19_check_mtime_restores_state ==
    [][Call("check_mtime") =>
        /\ output_dir' = output_dir
        /\ artifacts' = artifacts
        /\ build_actions' = build_actions
        /\ snapshots' = snapshots]_vars

\* C20: whenever finish returns, with success or with an error, the path buffer
\* equals its value when finish was called.
C20_finish_restores_output_dir ==
    [][Call("finish") => output_dir' = output_dir]_vars

\* a renderer made of templates only
ThroughTemplates(r) ==
    /\ r.kind \in {"LoadAndApplyTemplate", "Pipeline"}
    /\ Templates(r)

\* the registration recorded in last' repeats one the finish before it wrote
\* an output for: the same destination, resource and renderer
SameAgain ==
    /\ last.op = "finish" /\ last.ok
    /\ Call("add_page") \/ Call("copy_page")
    /\ last'.ok
    /\ \E i \in 1..Len(log) :
        /\ log[i].done
        /\ log[i].path = last'.dest
        /\ log[i].src = last'.val
        /\ IF last'.op = "copy_page"
           THEN log[i].renderer = RendererNone
           ELSE log[i].renderer = last'.renderer /\ ThroughTemplates(last'.renderer)

\* C18: after a successful finish, registering a page or a copy it wrote again,
\* with no file changed and the force flag unset, enqueues no build action.
C18_unchanged_rerun_enqueues_nothing ==
    [][(SameAgain /\ ~force_generate) =>
        ~last'.enq /\ build_actions' = build_actions]_vars

\* a path made relative to the project root
RootRelative(p) ==
    IF starts_with(p, current_dir) THEN strip_prefix(p, current_dir) ELSE p

\* C21: copy_page and add_page derive the identifier from the resource path made
\* relative to the project root, and the artifact they store has a
\* project-root-relative source path: a file gets the same identifier whether
\* it is registered by its absolute or by its relative path.
C21_identifier_of_normalized_resource ==
    [][((Call("add_page") \/ Call("copy_page")) /\ last'.ok) =>
        /\ last'.val = uuid_from_path(RootRelative(last'.resource))
        /\ ~is_absolute(get(artifacts', last'.val).resource)]_vars

\* the pages of a match_pattern rule, in the order the rule visits them
RECURSIVE MarkdownSeq(_)
MarkdownSeq(entries) ==
    IF entries = <<>> THEN <<>>
    ELSE IF extension(Head(entries)) \in {<<"md">>, <<"markdown">>}
    THEN <<Head(entries)>> \o MarkdownSeq(Tail(entries))
    ELSE MarkdownSeq(Tail(entries))

\* the paths the compiler c was applied to in the last call, in order
RECURSIVE CompiledBy(_, _)
CompiledBy(cs, c) ==
    IF cs = <<>> THEN <<>>
    ELSE IF Head(cs).fn = "compile" /\ Head(cs).c = c
    THEN <<Head(cs).path>> \o CompiledBy(Tail(cs), c)
    ELSE CompiledBy(Tail(cs), c)

\* a match_pattern rule that returned an error stopped at the page it failed on:
\* the pages before it are registered, no page after it was compiled
StoppedAtFirstFailure ==
    (last.rule.kind = "match_pattern" /\ RuleRan /\ err # NoErr) =>
        LET pages == MarkdownSeq(last.rule.entries)
            done == CompiledBy(calls, last.rule.compiler)
            n == Len(done)
        IN /\ n \in 1..Len(pages)
           /\ \A k \in 1..n : done[k] \in {pages[k], RootRelative(pages[k])}
           /\ \A k \in 1..(n - 1) : contains_key(artifacts, uuid_from_path(done[k]))

\* C22: a failing add_page leaves the artifact store and the action queue
\* exactly as they were, and returns the error; a rule stops at its first
\* failing page and the store is as the pages before it left it.
C22_failed_add_page_stores_nothing ==
    [][/\ (Call("add_page") /\ ~last'.ok) =>
            /\ artifacts' = artifacts
            /\ build_actions' = build_actions
            /\ last'.err # NoErr \/ panicked'
       /\ (Call("then") /\ err = NoErr) =>
            /\ StoppedAtFirstFailure'
            /\ (last'.rule.kind \in {"create", "build_rss_feed"} /\ err' # NoErr) =>
                    artifacts' = artifacts /\ build_actions' = build_actions]_vars

\* add_page failed on the content date of a page after other pages had been
\* registered, and they are still there
C22_witness ==
    /\ last.op = "add_page" /\ ~last.ok /\ last.err = "gitdate"
    /\ Len(artifacts) >= 1 /\ Len(build_actions) >= 1

\* the identifiers of the artifact store
Keys(m) == {m[i].key : i \in 1..Len(m)}

\* the identifiers a rule can register: those of its pages, as listed or made
\* relative to the project root
RuleSources(rule) ==
    LET paths == IF rule.kind \in {"match_pattern", "copy"}
                 THEN {rule.entries[k] : k \in 1..Len(rule.entries)}
                 ELSE {rule.path}
    IN {uuid_from_path(p) : p \in paths} \cup {uuid_from_path(RootRelative(p)) : p \in paths}

\* the identifiers the Custom renderers of the queue register when they run
RendererSources(actions) ==
    {uuid_from_path(actions[i].val.to.resource) :
        i \in {j \in 1..Len(actions) : /\ actions[j].val.to.kind = "Custom"
                                       /\ actions[j].val.to.f = "register"}}

\* C23: the store holds one artifact per identifier; a registration through
\* copy_page or add_page adds the artifact of its source when it is not there
\* yet and no other; nothing else adds an artifact and nothing removes one.
C23_one_artifact_per_source ==
    [][/\ Keys(artifacts) \subseteq Keys(artifacts')
       /\ Cardinality(Keys(artifacts')) = Len(artifacts')
       /\ ((Call("add_page") \/ Call("copy_page")) /\ last'.ok) =>
            Keys(artifacts') = Keys(artifacts) \cup {last'.val}
       /\ Call("then") => Keys(artifacts') \ Keys(artifacts) \subseteq RuleSources(last'.rule)
       /\ Call("finish") =>
            Keys(artifacts') \ Keys(artifacts) \subseteq RendererSources(build_actions)
       /\ last'.op \in {"check_mtime", "add_snapshot", "add_to_snapshot", "edit"} =>
            artifacts' = artifacts]_vars

\* a source registered twice has one artifact, and it has no pending action
C23_witness ==
    /\ last.op \in {"add_page", "copy_page"} /\ last.ok /\ ~last.enq
    /\ ops = 3 /\ Len(artifacts) = 1
    /\ build_actions = <<>>

\* the queue q holds an action that builds the destination d from the artifact u
Queued(q, d, u) == \E i \in 1..Len(q) : q[i].key = d /\ q[i].val.src = u

\* the entries of the log l for the destination d built from the artifact u
Written(l, d, u) == {i \in 1..Len(l) : l[i].path = d /\ l[i].src = u /\ l[i].done}

\* a registration found stale enqueues the action of its destination, and a
\* registration found cached leaves the queue alone
EnqueuedWhenStale ==
    ((Call("add_page") \/ Call("copy_page")) /\ last'.ok) =>
        IF last'.enq THEN Queued(build_actions', last'.dest, last'.val)
        ELSE build_actions' = build_actions

\* finish writes for the actions of the queue only, and for none of them twice
WritesQueuedOnly ==
    Call("finish") =>
        /\ \A i \in 1..Len(log') : Queued(build_actions, log'[i].path, log'[i].src)
        /\ \A i \in 1..Len(build_actions) :
            Cardinality(Written(log', build_actions[i].key, build_actions[i].val.src)) <= 1

\* C24 as the specification states it: an action enqueued for an artifact stays
\* in the queue until finish, and finish writes the output of every queued
\* action exactly once and removes it; nothing is written for a cached artifact.
C24_pending_written_exactly_once ==
    [][/\ EnqueuedWhenStale
       /\ WritesQueuedOnly
       /\ (ops' # ops /\ last'.op # "finish") =>
            \A i \in 1..Len(build_actions) :
                Queued(build_actions', build_actions[i].key, build_actions[i].val.src)
       /\ (Call("finish") /\ err = NoErr /\ ~panicked') =>
            \A i \in 1..Len(build_actions) :
                Cardinality(Written(log', build_actions[i].key,
                                    build_actions[i].val.src)) = 1]_vars

\* C24, amended: a queued action stays in the queue until finish unless a later
\* registration of the same destination replaces it; a finish that is not
\* latched drains the queue, writes nothing but outputs of queued actions, none
\* twice, and all of them exactly once when it returns Ok.
C24_pending_written_once_on_success ==
    [][/\ EnqueuedWhenStale
       /\ WritesQueuedOnly
       /\ (ops' # ops /\ last'.op # "finish") =>
            \A i \in 1..Len(build_actions) :
                \E j \in 1..Len(build_actions') :
                    build_actions'[j].key = build_actions[i].key
       /\ (Call("finish") /\ err = NoErr /\ ~panicked') =>
            /\ \A j \in 1..Len(build_actions') :
                \E i \in 1..Len(build_actions) :
                    /\ build_actions[i].val.to.kind = "Custom"
                    /\ build_actions[i].val.to.f = "register"
                    /\ build_actions[i].val.to.dest = build_actions'[j].key
            /\ last'.ok =>
                \A i \in 1..Len(build_actions) :
                    Cardinality(Written(log', build_actions[i].key,
                                        build_actions[i].val.src)) = 1]_vars

\* finish returned Ok after writing the outputs of two queued actions, while a
\* third artifact, found stale when registered, had its action replaced
C24_witness ==
    /\ last.op = "finish" /\ last.ok
    /\ Len(log) = 2 /\ \A i \in 1..2 : log[i].done
    /\ Len(artifacts) = 3 /\ build_actions = <<>>

\* the queue in the order finish processes it
Sorted == sort_by(build_actions, action_dates(St, build_actions))

\* the entries of the log that are done
Done(l) == {i \in 1..Len(l) : l[i].done}

\* C25: when a step of finish fails, finish returns that error at once: the
\* actions ordered before the failing one are done and their files are in
\* place, the failing one is not, and nothing is processed or written for the
\* actions ordered after it.
C25_commit_error_aborts_finish ==
    [][(Call("finish") /\ err = NoErr /\ ~last'.ok /\ ~panicked') =>
        LET n == Cardinality(Done(log')) IN
        /\ last'.err # NoErr
        /\ n < Len(Sorted) /\ Len(log') \in {n, n + 1}
        /\ \A i \in 1..Len(log') :
            /\ log'[i].path = Sorted[i].key /\ log'[i].src = Sorted[i].val.src
            /\ log'[i].done <=> i <= n
        /\ \A i \in 1..n : is_file(fs', log'[i].file) /\ fs'[log'[i].file].mtime = now
        /\ \A p \in DOMAIN fs' :
            (is_file(fs', p) /\ (p \notin DOMAIN fs \/ fs'[p] # fs[p])) =>
                \E i \in 1..Len(log') : log'[i].file = p
        /\ (last'.io # NoFailure /\ last'.err = "io") => Len(log') <= last'.io.at]_vars

\* finish failed on its second action after writing the file of the first
C25_witness ==
    /\ last.op = "finish" /\ ~last.ok /\ last.err = "io"
    /\ Len(log) = 2 /\ log[1].done /\ ~log[2].done
    /\ is_file(fs, log[1].file) /\ log[2].file \notin DOMAIN fs

\* C26: when the content date of a resource cannot be determined, copy_page
\* and add_page (its compiler succeeding) still register the artifact, with
\* the date found for no resource that has one.
C26_unknown_date_registers_with_sentinel ==
    [][(/\ Call("copy_page") \/ (Call("add_page") /\ last'.compiler = Pandoc)
        /\ ~git_log(last'.resource).ok) =>
        /\ ~panicked' /\ last'.ok
        /\ contains_key(artifacts', last'.val)
        /\ get(artifacts', last'.val).updated_date = git_log(last'.resource).date]_vars

\* C27: finish leaves the artifacts and the snapshots as they were, up to the
\* order of the store: the same identifiers with the same metadata, none of
\* which has gained the ROOT_PREFIX entry.
C27_finish_keeps_stored_metadata ==
    [][Call("finish") =>
        /\ Keys(artifacts') = Keys(artifacts)
        /\ \A k \in Keys(artifacts) :
            /\ get(artifacts', k).metadata = get(artifacts, k).metadata
            /\ "ROOT_PREFIX" \notin DOMAIN get(artifacts', k).metadata
        /\ snapshots' = snapshots]_vars

\* C28: the identifier copy_page and add_page return, and store the artifact
\* under, is uuid_from_path of the resource path they register (for add_page
\* the path after its prefix was stripped), whatever the destination, the
\* metadata and the state.
C28_identifier_is_uuid_of_resource ==
    [][((Call("add_page") \/ Call("copy_page")) /\ last'.ok) =>
        /\ contains_key(artifacts', last'.val)
        /\ get(artifacts', last'.val).uuid = last'.val
        /\ IF last'.op = "copy_page"
           THEN last'.val = uuid_from_path(last'.resource)
           ELSE /\ last'.val = uuid_from_path(get(artifacts', last'.val).resource)
                /\ get(artifacts', last'.val).resource \in
                        {last'.resource, RootRelative(last'.resource)}]_vars

\* a resource registered for a second destination, in another state and with
\* other metadata, got the identifier of its first registration
C28_witness ==
    /\ last.op \in {"add_page", "copy_page"} /\ last.ok /\ ops = 2
    /\ Len(artifacts) = 1
    /\ \E i \in 1..Len(build_actions) :
        /\ build_actions[i].key # last.dest
        /\ build_actions[i].val.src = last.val

\* C29: in every reachable state the artifact of every queued build action is
\* in the artifact store.
C29_queued_actions_have_artifacts ==
    \A i \in 1..Len(build_actions) : contains_key(artifacts, build_actions[i].val.src)

\* two actions are queued for two artifacts that separate calls registered
C29_witness ==
    /\ Len(build_actions) >= 2
    /\ build_actions[1].val.src # build_actions[2].val.src
    /\ last.op # "then" /\ ops = 3

\* C30: in every reachable state the artifact of every queued build action has
\* the destination of the action as its path.
C30_queued_action_matches_artifact ==
    \A i \in 1..Len(build_actions) :
        contains_key(artifacts, build_actions[i].val.src) =>
            get(artifacts, build_actions[i].val.src).path = build_actions[i].key

\* C31: within one finish no file is written twice: the files the actions of
\* the queue resolve to are pairwise distinct.
C31_no_file_written_twice ==
    [][Call("finish") =>
        \A i, j \in 1..Len(log') : i # j => log'[i].file # log'[j].file]_vars

\* C32: a successful add_page with a Custom or None renderer enqueues the
\* action of its destination whatever the modification times and the force
\* flag; so do the rules create and build_rss_feed when they return Ok.
C32_custom_and_none_always_stale ==
    [][/\ (Call("add_page") /\ last'.ok /\ last'.renderer.kind \in {"Custom", "None"}) =>
            last'.enq /\ Queued(build_actions', last'.dest, last'.val)
       /\ (/\ Call("then") /\ err = NoErr /\ err' = NoErr /\ ~panicked'
           /\ last'.rule.kind \in {"create", "build_rss_feed"}) =>
            \E i \in 1..Len(build_actions') :
                /\ build_actions'[i].key = last'.rule.path
                /\ build_actions'[i].val.to.kind =
                        IF last'.rule.kind = "create" THEN "None" ELSE "Custom"]_vars

\* with the force flag unset, a page with such a renderer was enqueued although
\* its destination, written by the finish before, is up to date
C32_witness ==
    /\ ~force_generate
    /\ last.op = "add_page" /\ last.ok /\ last.enq
    /\ last.renderer.kind \in {"Custom", "None"}
    /\ UpToDate(push(output_dir, last.dest), SourceFile(last.resource))

\* the entries of the log whose file no later entry of the log names
LastWrite(l) == {i \in 1..Len(l) : l[i].done /\ \A j \in (i + 1)..Len(l) : l[j].file # l[i].file}

\* the source file of the artifact u in the store m
SourceOf(m, u) == join(current_dir, get(m, u).resource)

\* C33: finish commits an action whose renderer is None by copying the source
\* file of its artifact, and any other action by writing what its renderer
\* returns on the artifact's metadata; the body the compiler produced for a
\* page with the renderer None is not written.
C33_copy_iff_renderer_none ==
    [][Call("finish") =>
        \A i \in LastWrite(log') :
            IF log'[i].renderer.kind = "None"
            THEN SourceOf(artifacts', log'[i].src) # log'[i].file =>
                    /\ fs'[log'[i].file].data = fs'[SourceOf(artifacts', log'[i].src)].data
                    /\ \A k \in 1..Len(calls') : calls'[k].r.kind # "None"
            ELSE fs'[log'[i].file].data =
                    render(St, log'[i].renderer,
                           map_insert(get(artifacts', log'[i].src).metadata,
                                      "ROOT_PREFIX", url_root)).out]_vars

\* the page of a create rule, compiled to a body, was committed as a copy of
\* its resource file
C33_witness ==
    /\ last.op = "finish" /\ last.ok
    /\ \E i \in 1..Len(log) :
        /\ log[i].done /\ log[i].renderer.kind = "None"
        /\ "body" \in DOMAIN get(artifacts, log[i].src).metadata
        /\ fs[log[i].file].data = fs[SourceOf(artifacts, log[i].src)].data
        /\ fs[log[i].file].data # get(artifacts, log[i].src).metadata["body"]

\* C34: when finish fails while it processes an action the queue is empty
\* afterwards: the actions not yet processed are discarded.
C34_failed_finish_empties_queue ==
    [][(Call("finish") /\ err = NoErr /\ build_actions # <<>> /\ ~last'.ok /\ ~panicked') =>
        build_actions' = <<>>]_vars

\* C35: in a run of then(..) calls closed by finish, whenever the rule
\* build_rss_feed runs its rss_feed compiler, every identifier of the snapshot
\* is a key of the artifact store, and the lookups do not panic.
C35_feed_lookups_never_miss ==
    [][(Call("then") /\ last'.rule.kind = "build_rss_feed" /\ RuleRan') =>
        /\ \A j \in 1..Len(Snapshot(snapshots, last'.rule.compiler.name)) :
            contains_key(artifacts, Snapshot(snapshots, last'.rule.compiler.name)[j])
        /\ ~panicked']_vars

\* the feed rule ran on a snapshot of two stored pages and registered the feed
C35_witness ==
    /\ last.op = "then" /\ last.rule.kind = "build_rss_feed" /\ RuleRan /\ err = NoErr
    /\ Len(Snapshot(snapshots, "feed")) = 2
    /\ \A j \in 1..2 : contains_key(artifacts, Snapshot(snapshots, "feed")[j])
    /\ contains_key(artifacts, uuid_from_path(last.rule.path))

\* a rule has failed after its compiler had appended to the snapshot: the
\* snapshot names a page that is not in the store, and the error is latched
C35_dangling_identifier_latched ==
    /\ err # NoErr
    /\ \E j \in 1..Len(Snapshot(snapshots, "feed")) :
        ~contains_key(artifacts, Snapshot(snapshots, "feed")[j])

\* C36: compiler_seq(a, b) runs a and then b on the same path; when a fails b
\* is not run and the error of a is returned; when both succeed the result has
\* the keys of both maps, with the value of b for a key of both; what a did to
\* the state persists when b fails.
C36_compiler_seq_runs_a_then_b ==
    [][(Call("compile") /\ last'.c.kind = "compiler_seq" /\ ~panicked') =>
        LET a == compile(St, last'.c.a, last'.path)
            b == compile(a.s, last'.c.b, last'.path)
        IN /\ calls'[1].c = last'.c
           /\ calls'[2].c = last'.c.a /\ calls'[2].path = last'.path
           /\ IF ~a.ok
              THEN /\ Len(calls') = 2
                   /\ ~last'.ok /\ last'.err = a.err
                   /\ snapshots' = a.s.snapshots
              ELSE /\ Len(calls') = 3
                   /\ calls'[3].c = last'.c.b /\ calls'[3].path = last'.path
                   /\ snapshots' = b.s.snapshots
                   /\ \A i \in 1..Len(a.s.snapshots) :
                        Len(Snapshot(snapshots', a.s.snapshots[i].key)) >=
                            Len(a.s.snapshots[i].val)
                   /\ IF ~b.ok
                      THEN ~last'.ok /\ last'.err = b.err
                      ELSE /\ last'.ok
                           /\ DOMAIN last'.val = DOMAIN a.val \cup DOMAIN b.val
                           /\ \A k \in DOMAIN last'.val :
                                last'.val[k] = IF k \in DOMAIN b.val THEN b.val[k]
                                               ELSE a.val[k]]_vars

\* pandoc followed by rss_feed: the title is pandoc's and the body, a key of
\* both maps, is the feed's
C36_witness ==
    /\ last.op = "compile" /\ last.ok
    /\ last.c = CompilerSeq(Pandoc, RssFeed("feed"))
    /\ last.val["title"] = pandoc_out(last.path)["title"]
    /\ last.val["body"] # pandoc_out(last.path)["body"]

\* the snapshot append of a persisted although b failed
C36_append_persists ==
    /\ last.op = "compile" /\ ~last.ok /\ last.err = "compiler"
    /\ last.c = CompilerSeq(Snap("feed"), Failing)
    /\ Len(Snapshot(snapshots, "feed")) >= 1

====
